---- MODULE Spec2Model ----
(***************************************************************************)
(* The guided-tour state machine of static/app/components/tours:           *)
(* useTourReducer (the revision that stores isActive and isRegistered),    *)
(* its registry (useTourRegistry) and the actions dispatched to it.        *)
(*                                                                         *)
(* JavaScript values are written as follows.  A step key (TourEnumType =   *)
(* string | number) is the text of its literal: "0" and "1" are the        *)
(* numbers 0 and 1, and "'a'" is the string 'a'.                           *)
(* "undefined" is the value undefined.  null is the record Null.           *)
(***************************************************************************)
EXTENDS Integers, Sequences, FiniteSets, TLC

\* ---- bounds -------------------------------------------------------------
\* longest orderedStepIds the hook is constructed with
MaxSteps == 3

\* longest recorded run of dispatched actions
MaxRun == 4

\* most pages a replay has of recording segments and of replays-events-meta
MaxPages == 2

\* ---- JavaScript values ---------------------------------------------------
\* values of TourEnumType a tour may use as step ids
TourEnumType == {"0", "1", "'a'"}

\* titles a TourStep may carry (the description is carried alongside)
Titles == {"t1", "t2"}

Null == [null |-> TRUE]

\* a property that an object does not have
Absent == [undefined |-> TRUE]

TourStep == [id : TourEnumType, title : Titles, description : {"d"}]

\* ToBoolean of a key or of undefined: 0, '' and undefined are falsy
Truthy(v) == v \notin {"undefined", "0", "''"}

\* the property name a key is stored under in the registry object
PropertyKey(k) ==
  CASE k = "0" -> "0"
    [] k = "1" -> "1"
    [] k = "'a'" -> "a"

PropertyNames == {PropertyKey(k) : k \in TourEnumType}

\* Array.prototype.indexOf: 0-based position of the first strictly equal
\* element, -1 when there is none
indexOf(arr, v) ==
  IF \E i \in 1..Len(arr) : arr[i] = v
    THEN (CHOOSE i \in 1..Len(arr) : arr[i] = v /\ \A j \in 1..(i - 1) : arr[j] # v) - 1
    ELSE -1

\* arr[i] with a 0-based index: undefined outside the array
At(arr, i) == IF i >= 0 /\ i < Len(arr) THEN arr[i + 1] ELSE "undefined"

\* sequences of pairwise distinct keys, of length 0..MaxSteps
OrderedStepIdLists ==
  {s \in UNION {[1..n -> TourEnumType] : n \in 0..MaxSteps} :
     \A i, j \in 1..Len(s) : i # j => s[i] # s[j]}

\* ---- state ----------------------------------------------------------------
VARIABLES
  orderedStepIds,  \* the hook's orderedStepIds argument
  tour,            \* the reducer state (useReducer)
  registry,        \* the registry of the last render, closed over by the reducer
  nextRegistry,    \* the registry after the queued setRegistry updaters
  action,          \* the action dispatched last
  prev,            \* the reducer state that action was applied to
  run,             \* the actions dispatched since construction, when recorded
  replay           \* the state behind useReplayData: its queries and the project

vars == <<orderedStepIds, tour, registry, nextRegistry, action, prev, run, replay>>

\* useTourRegistry: every declared key starts as null
useTourRegistry(stepsIds) ==
  [p \in PropertyNames |->
     IF \E i \in 1..Len(stepsIds) : PropertyKey(stepsIds[i]) = p THEN Null ELSE Absent]

\* initState: the defaults, with the caller's isAvailable spread over them
initState(ids, isAvailable) ==
  [orderedStepIds |-> ids,
   currentStep |-> Null,
   isAvailable |-> isAvailable,
   isActive |-> FALSE,
   isRegistered |-> FALSE,
   currentStepIndex |-> <<>>]

\* Object.values(registry).every(Boolean)
everyBoolean(reg) == \A p \in PropertyNames : reg[p] # Null

\* registry[key] ?? null
lookup(reg, key) ==
  IF reg[PropertyKey(key)] \in {Null, Absent} THEN Null ELSE reg[PropertyKey(key)]

\* completeTourState that also forgets the step order
completeTourState_clearsSteps(state) ==
  [state EXCEPT !.isActive = FALSE, !.currentStep = Null, !.currentStepIndex = <<-1>>,
                !.orderedStepIds = <<>>]

completeTourState(state) ==
  [state EXCEPT !.isActive = FALSE, !.currentStep = Null, !.currentStepIndex = <<-1>>]

\* ---- the reducer, one operator per case of the switch -----------------------
\* `reg` is the registry the reducer closed over when it was created.

REGISTER_STEP(state, a, reg) ==
  IF everyBoolean(reg) THEN [state EXCEPT !.isRegistered = TRUE] ELSE state

\* an updater that replaces the registry instead of spreading `prevReg`
setRegistry_replaces(prevReg, a) ==
  IF a.type = "REGISTER_STEP"
    THEN [p \in PropertyNames |->
            IF p = PropertyKey(a.step.id) THEN a.step
            ELSE IF prevReg[p] = Absent THEN Absent ELSE Null]
    ELSE prevReg

\* the updater REGISTER_STEP hands to setRegistry, applied to `prevReg`
setRegistry(prevReg, a) ==
  IF a.type = "REGISTER_STEP"
    THEN [prevReg EXCEPT ![PropertyKey(a.step.id)] = a.step]
    ELSE prevReg

\* START_TOUR that checks availability only
START_TOUR_ungated(state, a, reg) ==
  IF ~state.isAvailable
    THEN state
    ELSE LET startStepIndex ==
               IF Truthy(a.stepId) THEN indexOf(orderedStepIds, a.stepId) ELSE -1
         IN  IF Truthy(a.stepId) /\ startStepIndex # -1
               THEN [state EXCEPT !.currentStep = lookup(reg, a.stepId),
                                  !.currentStepIndex = <<startStepIndex>>]
               ELSE IF Truthy(At(orderedStepIds, 0))
                 THEN [state EXCEPT !.currentStep = lookup(reg, At(orderedStepIds, 0)),
                                    !.currentStepIndex = <<0>>]
                 ELSE state

START_TOUR(state, a, reg) ==
  IF ~state.isAvailable \/ ~state.isRegistered
    THEN state
    ELSE LET startStepIndex ==
               IF Truthy(a.stepId) THEN indexOf(orderedStepIds, a.stepId) ELSE -1
         IN  IF Truthy(a.stepId) /\ startStepIndex # -1
               THEN [state EXCEPT !.currentStep = lookup(reg, a.stepId),
                                  !.currentStepIndex = <<startStepIndex>>]
               ELSE IF Truthy(At(orderedStepIds, 0))
                 THEN [state EXCEPT !.currentStep = lookup(reg, At(orderedStepIds, 0)),
                                    !.currentStepIndex = <<0>>]
                 ELSE state

\* NEXT_STEP that stays on the last step instead of completing the tour
NEXT_STEP_stay(state, a, reg) ==
  IF state.currentStep = Null
    THEN state
    ELSE LET nextStepIndex == indexOf(orderedStepIds, state.currentStep.id) + 1
             nextStepId == At(orderedStepIds, nextStepIndex)
         IN  IF Truthy(nextStepId)
               THEN [state EXCEPT !.currentStep = lookup(reg, nextStepId),
                                  !.currentStepIndex = <<nextStepIndex>>]
               ELSE state

NEXT_STEP(state, a, reg) ==
  IF state.currentStep = Null
    THEN state
    ELSE LET nextStepIndex == indexOf(orderedStepIds, state.currentStep.id) + 1
             nextStepId == At(orderedStepIds, nextStepIndex)
         IN  IF Truthy(nextStepId)
               THEN [state EXCEPT !.currentStep = lookup(reg, nextStepId),
                                  !.currentStepIndex = <<nextStepIndex>>]
               ELSE completeTourState(state)

\* PREVIOUS_STEP that completes the tour when there is no current step
PREVIOUS_STEP_completes(state, a, reg) ==
  IF state.currentStep = Null
    THEN completeTourState(state)
    ELSE LET prevStepIndex == indexOf(orderedStepIds, state.currentStep.id) - 1
             prevStepId == At(orderedStepIds, prevStepIndex)
         IN  IF Truthy(prevStepId)
               THEN [state EXCEPT !.currentStep = lookup(reg, prevStepId),
                                  !.currentStepIndex = <<prevStepIndex>>]
               ELSE state

PREVIOUS_STEP(state, a, reg) ==
  IF state.currentStep = Null
    THEN state
    ELSE LET prevStepIndex == indexOf(orderedStepIds, state.currentStep.id) - 1
             prevStepId == At(orderedStepIds, prevStepIndex)
         IN  IF Truthy(prevStepId)
               THEN [state EXCEPT !.currentStep = lookup(reg, prevStepId),
                                  !.currentStepIndex = <<prevStepIndex>>]
               ELSE state

\* END_TOUR that is ignored while the tour is not available
END_TOUR_gated(state, a, reg) ==
  IF state.isAvailable THEN completeTourState(state) ELSE state

END_TOUR(state, a, reg) == completeTourState(state)

\* SET_CURRENT_STEP without the orderedStepIds check
SET_CURRENT_STEP_unchecked(state, a, reg) ==
  LET setStepIndex == indexOf(orderedStepIds, a.step.id)
  IN  [state EXCEPT !.currentStep = a.step, !.currentStepIndex = <<setStepIndex>>]

SET_CURRENT_STEP(state, a, reg) ==
  LET setStepIndex == indexOf(orderedStepIds, a.step.id)
  IN  IF setStepIndex = -1
        THEN state
        ELSE [state EXCEPT !.currentStep = a.step, !.currentStepIndex = <<setStepIndex>>]

\* a reducer whose default case ends the tour instead of returning the state
reducer_defaultEnds(state, a, reg) ==
  CASE a.type = "REGISTER_STEP" -> REGISTER_STEP(state, a, reg)
    [] a.type = "START_TOUR" -> START_TOUR(state, a, reg)
    [] a.type = "NEXT_STEP" -> NEXT_STEP(state, a, reg)
    [] a.type = "PREVIOUS_STEP" -> PREVIOUS_STEP(state, a, reg)
    [] a.type = "END_TOUR" -> END_TOUR(state, a, reg)
    [] a.type = "SET_CURRENT_STEP" -> SET_CURRENT_STEP(state, a, reg)
    [] OTHER -> completeTourState(state)

reducer(state, a, reg) ==
  CASE a.type = "REGISTER_STEP" -> REGISTER_STEP(state, a, reg)
    [] a.type = "START_TOUR" -> START_TOUR(state, a, reg)
    [] a.type = "NEXT_STEP" -> NEXT_STEP(state, a, reg)
    [] a.type = "PREVIOUS_STEP" -> PREVIOUS_STEP(state, a, reg)
    [] a.type = "END_TOUR" -> END_TOUR(state, a, reg)
    [] a.type = "SET_CURRENT_STEP" -> SET_CURRENT_STEP(state, a, reg)
    [] OTHER -> state

\* ---- the state machine ------------------------------------------------------
Init ==
  /\ orderedStepIds \in OrderedStepIdLists
  /\ \E isAvailable \in BOOLEAN : tour = initState(orderedStepIds, isAvailable)
  /\ registry = useTourRegistry(orderedStepIds)
  /\ nextRegistry = registry
  /\ action = [type |-> "INIT"]
  /\ prev = tour
  /\ run = <<>>
  /\ replay = Null

\* dispatch.  React reduces a dispatched action during the next render, with the
\* reducer created by the render before it: that reducer closes over the
\* registry of its render, and a setRegistry updater the reducer queues is
\* applied only by the render after.  An action dispatched in the same batch as
\* the action before it (`sameBatch`) is reduced by the same reducer and sees
\* the same `registry`; otherwise a render has happened in between and the
\* reducer sees the registry with every queued updater applied.
closure(sameBatch) == IF sameBatch THEN registry ELSE nextRegistry

\* useRegisterTourStep's effect: the steps mounted by one commit dispatch their
\* REGISTER_STEP actions in one batch
RegisterStep ==
  \E step \in TourStep, sameBatch \in BOOLEAN :
    LET a == [type |-> "REGISTER_STEP", step |-> step]
    IN  /\ tour' = reducer(tour, a, closure(sameBatch))
        /\ registry' = closure(sameBatch)
        /\ nextRegistry' = setRegistry(nextRegistry, a)
        /\ action' = a
        /\ prev' = tour
        /\ UNCHANGED <<orderedStepIds, run, replay>>

\* the remaining actions are dispatched by event handlers, one per event, so a
\* render separates each of them from the action before it
StartTour ==
  \E stepId \in TourEnumType \cup {"undefined"} :
    LET a == [type |-> "START_TOUR", stepId |-> stepId]
    IN  /\ tour' = reducer(tour, a, closure(FALSE))
        /\ registry' = closure(FALSE)
        /\ nextRegistry' = setRegistry(nextRegistry, a)
        /\ action' = a
        /\ prev' = tour
        /\ UNCHANGED <<orderedStepIds, run, replay>>

NextStep ==
  LET a == [type |-> "NEXT_STEP"]
  IN  /\ tour' = reducer(tour, a, closure(FALSE))
      /\ registry' = closure(FALSE)
      /\ nextRegistry' = setRegistry(nextRegistry, a)
      /\ action' = a
      /\ prev' = tour
      /\ UNCHANGED <<orderedStepIds, run, replay>>

PreviousStep ==
  LET a == [type |-> "PREVIOUS_STEP"]
  IN  /\ tour' = reducer(tour, a, closure(FALSE))
      /\ registry' = closure(FALSE)
      /\ nextRegistry' = setRegistry(nextRegistry, a)
      /\ action' = a
      /\ prev' = tour
      /\ UNCHANGED <<orderedStepIds, run, replay>>

EndTour ==
  LET a == [type |-> "END_TOUR"]
  IN  /\ tour' = reducer(tour, a, closure(FALSE))
      /\ registry' = closure(FALSE)
      /\ nextRegistry' = setRegistry(nextRegistry, a)
      /\ action' = a
      /\ prev' = tour
      /\ UNCHANGED <<orderedStepIds, run, replay>>

SetCurrentStep ==
  \E step \in TourStep :
    LET a == [type |-> "SET_CURRENT_STEP", step |-> step]
    IN  /\ tour' = reducer(tour, a, closure(FALSE))
        /\ registry' = closure(FALSE)
        /\ nextRegistry' = setRegistry(nextRegistry, a)
        /\ action' = a
        /\ prev' = tour
        /\ UNCHANGED <<orderedStepIds, run, replay>>

\* an action whose type is none of the six: the switch falls to its default case
UnknownAction ==
  LET a == [type |-> "UNKNOWN"]
  IN  /\ tour' = reducer(tour, a, closure(FALSE))
      /\ registry' = closure(FALSE)
      /\ nextRegistry' = setRegistry(nextRegistry, a)
      /\ action' = a
      /\ prev' = tour
      /\ UNCHANGED <<orderedStepIds, run, replay>>

Next ==
  \/ RegisterStep
  \/ StartTour
  \/ NextStep
  \/ PreviousStep
  \/ EndTour
  \/ SetCurrentStep
  \/ UnknownAction

Spec == Init /\ [][Next]_vars

\* ---- recorded runs ----------------------------------------------------------
\* The same state machine for an available tour, with the dispatched actions
\* recorded in `run`: the steps of the tour register themselves, each dispatch
\* followed by a render, and the tour is started and navigated.
InitRuns == Init /\ tour.isAvailable

RunRegisterStep ==
  \E i \in 1..Len(orderedStepIds) :
    LET a == [type |-> "REGISTER_STEP",
              step |-> [id |-> orderedStepIds[i], title |-> "t1", description |-> "d"]]
    IN  /\ Len(run) < MaxRun
        /\ tour' = reducer(tour, a, closure(FALSE))
        /\ registry' = closure(FALSE)
        /\ nextRegistry' = setRegistry(nextRegistry, a)
        /\ action' = a
        /\ prev' = tour
        /\ run' = Append(run, a)
        /\ UNCHANGED <<orderedStepIds, replay>>

RunStartTour ==
  \E stepId \in TourEnumType \cup {"undefined"} :
    LET a == [type |-> "START_TOUR", stepId |-> stepId]
    IN  /\ Len(run) < MaxRun
        /\ tour' = reducer(tour, a, closure(FALSE))
        /\ registry' = closure(FALSE)
        /\ nextRegistry' = setRegistry(nextRegistry, a)
        /\ action' = a
        /\ prev' = tour
        /\ run' = Append(run, a)
        /\ UNCHANGED <<orderedStepIds, replay>>

RunNextStep ==
  LET a == [type |-> "NEXT_STEP"]
  IN  /\ Len(run) < MaxRun
      /\ tour' = reducer(tour, a, closure(FALSE))
      /\ registry' = closure(FALSE)
      /\ nextRegistry' = setRegistry(nextRegistry, a)
      /\ action' = a
      /\ prev' = tour
      /\ run' = Append(run, a)
      /\ UNCHANGED <<orderedStepIds, replay>>

RunPreviousStep ==
  LET a == [type |-> "PREVIOUS_STEP"]
  IN  /\ Len(run) < MaxRun
      /\ tour' = reducer(tour, a, closure(FALSE))
      /\ registry' = closure(FALSE)
      /\ nextRegistry' = setRegistry(nextRegistry, a)
      /\ action' = a
      /\ prev' = tour
      /\ run' = Append(run, a)
      /\ UNCHANGED <<orderedStepIds, replay>>

NextRuns ==
  \/ RunRegisterStep
  \/ RunStartTour
  \/ RunNextStep
  \/ RunPreviousStep

SpecRuns == InitRuns /\ [][NextRuns]_vars

\* the tour state after dispatching `actions` one by one, a render after each,
\* to a reducer in state `state` whose registry is `reg`
RECURSIVE Replay(_, _, _)
Replay(state, reg, actions) ==
  IF actions = <<>>
    THEN state
    ELSE Replay(reducer(state, Head(actions), reg),
                setRegistry(reg, Head(actions)),
                Tail(actions))

\* ---- the step registration hook ---------------------------------------------
\* useRegisterTourStep's render decision for the component of `step`:
\* "TourElement" when the payload is wrapped in the tour chrome, otherwise
\* "focusedElement", the caller's payload as given
useRegisterTourStep(state, step) ==
  LET isActiveStep ==
        /\ state.isAvailable
        /\ state.isRegistered
        /\ state.currentStep # Null
        /\ state.currentStep.id = step.id
  IN  IF isActiveStep THEN "TourElement" ELSE "focusedElement"

\* the actions of type TourAction
TourAction ==
  {[type |-> "REGISTER_STEP", step |-> step] : step \in TourStep}
    \cup {[type |-> "START_TOUR", stepId |-> stepId] :
            stepId \in TourEnumType \cup {"undefined"}}
    \cup {[type |-> "NEXT_STEP"], [type |-> "PREVIOUS_STEP"], [type |-> "END_TOUR"]}
    \cup {[type |-> "SET_CURRENT_STEP", step |-> step] : step \in TourStep}

\* the values of type TourState for the tour at hand, with the currentStepIndex
\* property the reducer adds
TourState ==
  [orderedStepIds : {orderedStepIds},
   currentStep : TourStep \cup {Null},
   isAvailable : BOOLEAN,
   isActive : BOOLEAN,
   isRegistered : BOOLEAN,
   currentStepIndex : {<<>>} \cup {<<i>> : i \in -1..(Len(orderedStepIds) - 1)}]

\* ---- the linked-step revision (tourContext.tsx) -----------------------------
\* Steps carry nextStep and previousStep; the registry holds booleans. In this
\* revision `orderedStepIds` holds allStepIds, `tour` the revision's TourState
\* and `registry`, `nextRegistry` its boolean registry. A step object is
\* modelled by its id, title and description; the objects of a tour form one
\* chain in the order of allStepIds, read through nextStep and previousStep.

\* the step objects of the tour over allStepIds
LinkedSteps(allStepIds) ==
  {[id |-> allStepIds[i], title |-> "t1", description |-> "d"] : i \in 1..Len(allStepIds)}

\* step.nextStep: null on the final step
nextStep(allStepIds, step) ==
  LET i == indexOf(allStepIds, step.id)
  IN  IF i + 1 < Len(allStepIds)
        THEN [id |-> At(allStepIds, i + 1), title |-> "t1", description |-> "d"]
        ELSE Null

\* step.previousStep: null on the first step
previousStep(allStepIds, step) ==
  LET i == indexOf(allStepIds, step.id)
  IN  IF i > 0
        THEN [id |-> At(allStepIds, i - 1), title |-> "t1", description |-> "d"]
        ELSE Null

\* the booleans true and false as values of a registry property
JsTrue == [boolean |-> TRUE]
JsFalse == [boolean |-> FALSE]

\* useTourRegistry of the revision: every declared id starts as false
Linked_useTourRegistry(allStepIds) ==
  [p \in PropertyNames |->
     IF \E i \in 1..Len(allStepIds) : PropertyKey(allStepIds[i]) = p THEN JsFalse ELSE Absent]

\* the initialState a caller passes in
Linked_initialState(allStepIds, isAvailable) ==
  [currentStep |-> Null,
   currentStepIndex |-> 0,
   isAvailable |-> isAvailable,
   isComplete |-> FALSE,
   isRegistered |-> FALSE,
   totalSteps |-> Len(allStepIds)]

\* the updater REGISTER_STEP hands to setRegistry in this revision
Linked_setRegistry(prevReg, a) ==
  IF a.type = "REGISTER_STEP"
    THEN [prevReg EXCEPT ![PropertyKey(a.stepId)] = JsTrue]
    ELSE prevReg

\* the reducer of the revision; `reg` is the registry it closed over
Linked_reducer(allStepIds, state, a, reg) ==
  CASE a.type = "REGISTER_STEP" ->
         IF \A p \in PropertyNames : reg[p] # JsFalse
           THEN [state EXCEPT !.isRegistered = TRUE] ELSE state
    [] a.type = "START_TOUR" ->
         IF state.isAvailable THEN [state EXCEPT !.currentStep = a.step] ELSE state
    [] a.type = "NEXT_STEP" ->
         [state EXCEPT !.currentStep =
            IF state.currentStep = Null THEN Null
            ELSE nextStep(allStepIds, state.currentStep)]
    [] a.type = "PREVIOUS_STEP" ->
         [state EXCEPT !.currentStep =
            IF state.currentStep = Null THEN Null
            ELSE previousStep(allStepIds, state.currentStep)]
    [] a.type = "END_TOUR" ->
         [state EXCEPT !.currentStep = Null, !.isComplete = TRUE]
    [] a.type = "SET_CURRENT_STEP" -> [state EXCEPT !.currentStep = a.step]
    [] OTHER -> state

LinkedInit ==
  /\ orderedStepIds \in OrderedStepIdLists
  /\ \E isAvailable \in BOOLEAN : tour = Linked_initialState(orderedStepIds, isAvailable)
  /\ registry = Linked_useTourRegistry(orderedStepIds)
  /\ nextRegistry = registry
  /\ action = [type |-> "INIT"]
  /\ prev = tour
  /\ run = <<>>
  /\ replay = Null

LinkedRegisterStep ==
  \E stepId \in TourEnumType, sameBatch \in BOOLEAN :
    LET a == [type |-> "REGISTER_STEP", stepId |-> stepId]
    IN  /\ tour' = Linked_reducer(orderedStepIds, tour, a, closure(sameBatch))
        /\ registry' = closure(sameBatch)
        /\ nextRegistry' = Linked_setRegistry(nextRegistry, a)
        /\ action' = a
        /\ prev' = tour
        /\ UNCHANGED <<orderedStepIds, run, replay>>

LinkedStartTour ==
  \E step \in LinkedSteps(orderedStepIds) :
    LET a == [type |-> "START_TOUR", step |-> step]
    IN  /\ tour' = Linked_reducer(orderedStepIds, tour, a, closure(FALSE))
        /\ registry' = closure(FALSE)
        /\ nextRegistry' = Linked_setRegistry(nextRegistry, a)
        /\ action' = a
        /\ prev' = tour
        /\ UNCHANGED <<orderedStepIds, run, replay>>

LinkedNextStep ==
  LET a == [type |-> "NEXT_STEP"]
  IN  /\ tour' = Linked_reducer(orderedStepIds, tour, a, closure(FALSE))
      /\ registry' = closure(FALSE)
      /\ nextRegistry' = Linked_setRegistry(nextRegistry, a)
      /\ action' = a
      /\ prev' = tour
      /\ UNCHANGED <<orderedStepIds, run, replay>>

LinkedPreviousStep ==
  LET a == [type |-> "PREVIOUS_STEP"]
  IN  /\ tour' = Linked_reducer(orderedStepIds, tour, a, closure(FALSE))
      /\ registry' = closure(FALSE)
      /\ nextRegistry' = Linked_setRegistry(nextRegistry, a)
      /\ action' = a
      /\ prev' = tour
      /\ UNCHANGED <<orderedStepIds, run, replay>>

LinkedEndTour ==
  LET a == [type |-> "END_TOUR"]
  IN  /\ tour' = Linked_reducer(orderedStepIds, tour, a, closure(FALSE))
      /\ registry' = closure(FALSE)
      /\ nextRegistry' = Linked_setRegistry(nextRegistry, a)
      /\ action' = a
      /\ prev' = tour
      /\ UNCHANGED <<orderedStepIds, run, replay>>

LinkedSetCurrentStep ==
  \E step \in LinkedSteps(orderedStepIds) :
    LET a == [type |-> "SET_CURRENT_STEP", step |-> step]
    IN  /\ tour' = Linked_reducer(orderedStepIds, tour, a, closure(FALSE))
        /\ registry' = closure(FALSE)
        /\ nextRegistry' = Linked_setRegistry(nextRegistry, a)
        /\ action' = a
        /\ prev' = tour
        /\ UNCHANGED <<orderedStepIds, run, replay>>

LinkedNext ==
  \/ LinkedRegisterStep
  \/ LinkedStartTour
  \/ LinkedNextStep
  \/ LinkedPreviousStep
  \/ LinkedEndTour
  \/ LinkedSetCurrentStep

SpecLinked == LinkedInit /\ [][LinkedNext]_vars

\* ---- the tour chrome (TourBlurContainer, TourElement) ------------------------
\* TourBlurContainer: whether the blur window is rendered over the page
TourBlurContainer(state) == state.currentStep # Null

\* TourElement: the controls rendered around the active step, each with the type
\* of the action its onClick dispatches; the close button is always rendered
TourElement(state) ==
  LET currentStepIndex ==
        IF state.currentStep # Null
          THEN indexOf(state.orderedStepIds, state.currentStep.id)
          ELSE -1
      hasPreviousStep == currentStepIndex > 0
      hasNextStep == currentStepIndex < Len(state.orderedStepIds) - 1
  IN  {[label |-> "Close", type |-> "END_TOUR"]}
        \cup (IF hasPreviousStep
                THEN {[label |-> "Previous", type |-> "PREVIOUS_STEP"]} ELSE {})
        \cup (IF hasNextStep
                THEN {[label |-> "Next", type |-> "NEXT_STEP"]}
                ELSE {[label |-> "Finish tour", type |-> "END_TOUR"]})

\* the steps of the components that are mounted: each has dispatched its
\* REGISTER_STEP from the registration effect
mountedSteps ==
  {nextRegistry[p] : p \in {q \in PropertyNames : nextRegistry[q] \notin {Null, Absent}}}

\* ---- useReplayData ------------------------------------------------------------
\* `replay` holds what is behind the hook: the query cache, with one entry for
\* the replay record query and one per page of recording segments and of
\* replays-events-meta, the replay record once it has arrived, and whether
\* useProjects knows the project of the record.

\* the queries that are fetched in pages
PagedQueries == {"recording-segments", "replays-events-meta"}

\* the keys of the query cache: the query and the page
ReplayQueryKeys == {<<"replay", 1>>} \cup (PagedQueries \X (1..MaxPages))

\* the replay records a response can carry, by the number of pages that
\* count_segments and count_errors amount to
ReplayRecords == [PagedQueries -> 0..MaxPages]

\* replayRecord: undefined until the replay query has data
replayRecord(state) == state.record

\* useProjectSlug: null without a record or when no project has its project_id
useProjectSlug(state) ==
  IF replayRecord(state) = Null THEN Null
  ELSE IF state.projectFound THEN [slug |-> "project"] ELSE Null

\* the `enabled` option of the two useFetchParallelPages calls
enabled(state) ==
  /\ state.queries[<<"replay", 1>>].status # "error"
  /\ useProjectSlug(state) # Null
  /\ replayRecord(state) # Null

\* queryClient.invalidateQueries for the key of query q: every page under it
invalidateQueries(state, q) ==
  [state EXCEPT !.queries =
     [k \in ReplayQueryKeys |->
        IF k[1] = q THEN [state.queries[k] EXCEPT !.isInvalidated = TRUE]
        ELSE state.queries[k]]]

\* clearQueryCache: its body is an expression statement that builds the
\* function invalidating the three queries and never calls it
clearQueryCache(state) ==
  LET invalidateAll ==
        invalidateQueries(
          invalidateQueries(
            invalidateQueries(state, "replay"),
            "recording-segments"),
          "replays-events-meta")
  IN  state

ReplayInit ==
  /\ \E projectFound \in BOOLEAN :
       replay = [queries |-> [k \in ReplayQueryKeys |->
                                [status |-> "idle", isInvalidated |-> FALSE]],
                 record |-> Null,
                 projectFound |-> projectFound]
  /\ orderedStepIds = <<>>
  /\ tour = Null
  /\ registry = Null
  /\ nextRegistry = Null
  /\ action = [type |-> "INIT"]
  /\ prev = replay
  /\ run = <<>>

\* useApiQuery starts fetching the replay record
FetchReplay ==
  /\ replay.queries[<<"replay", 1>>].status = "idle"
  /\ replay' = [replay EXCEPT !.queries[<<"replay", 1>>].status = "fetching"]
  /\ action' = [type |-> "fetch", query |-> "replay"]
  /\ prev' = replay
  /\ UNCHANGED <<orderedStepIds, tour, registry, nextRegistry, run>>

\* the replay request settles, with a record or with an error
ReplayResponds ==
  \E record \in ReplayRecords \cup {Null} :
    /\ replay.queries[<<"replay", 1>>].status = "fetching"
    /\ replay' = [replay EXCEPT
                    !.queries[<<"replay", 1>>].status =
                       IF record = Null THEN "error" ELSE "success",
                    !.record = record]
    /\ action' = [type |-> "response", query |-> "replay"]
    /\ prev' = replay
    /\ UNCHANGED <<orderedStepIds, tour, registry, nextRegistry, run>>

\* useFetchParallelPages, once enabled, starts fetching a page within hits
FetchPage ==
  \E q \in PagedQueries, page \in 1..MaxPages :
    /\ enabled(replay)
    /\ page <= replayRecord(replay)[q]
    /\ replay.queries[<<q, page>>].status = "idle"
    /\ replay' = [replay EXCEPT !.queries[<<q, page>>].status = "fetching"]
    /\ action' = [type |-> "fetch", query |-> q]
    /\ prev' = replay
    /\ UNCHANGED <<orderedStepIds, tour, registry, nextRegistry, run>>

\* the request of a page settles, with data or with an error
PageResponds ==
  \E q \in PagedQueries, page \in 1..MaxPages, status \in {"success", "error"} :
    /\ replay.queries[<<q, page>>].status = "fetching"
    /\ replay' = [replay EXCEPT !.queries[<<q, page>>].status = status]
    /\ action' = [type |-> "response", query |-> q]
    /\ prev' = replay
    /\ UNCHANGED <<orderedStepIds, tour, registry, nextRegistry, run>>

\* the caller invokes result.onRetry, which is clearQueryCache
OnRetry ==
  /\ replay' = clearQueryCache(replay)
  /\ action' = [type |-> "onRetry"]
  /\ prev' = replay
  /\ UNCHANGED <<orderedStepIds, tour, registry, nextRegistry, run>>

ReplayNext ==
  \/ FetchReplay
  \/ ReplayResponds
  \/ FetchPage
  \/ PageResponds
  \/ OnRetry

SpecReplay == ReplayInit /\ [][ReplayNext]_vars

\* ---- claims -----------------------------------------------------------------
\* In the formulas below `action` is the action dispatched last, `prev` the tour
\* state it was applied to and `tour` the state it produced.

\* C1: START_TOUR, with or without a stepId, dispatched while isAvailable or
\* isRegistered is false returns the prior state: no field changes.
C1_StartTourNoOp ==
  (action.type = "START_TOUR" /\ (~prev.isAvailable \/ ~prev.isRegistered))
    => tour = prev

\* an available tour whose steps are not registered was asked to start at a step
C1_Witness ==
  /\ action.type = "START_TOUR"
  /\ action.stepId \in TourEnumType
  /\ indexOf(orderedStepIds, action.stepId) # -1
  /\ prev.isAvailable
  /\ ~prev.isRegistered
  /\ tour = prev

\* C2: after every REGISTER_STEP, isRegistered is true exactly when every key of
\* orderedStepIds has a step in the registry; the REGISTER_STEP that registers
\* the last missing key makes it true.
C2_Claim ==
  action.type = "REGISTER_STEP"
    => (tour.isRegistered <=>
          \A i \in 1..Len(orderedStepIds) :
            nextRegistry[PropertyKey(orderedStepIds[i])] \notin {Null, Absent})

\* C3: START_TOUR without a stepId, on an available and registered tour with a
\* non-empty orderedStepIds, sets currentStep to the registered step whose key
\* is orderedStepIds[0], whatever string or number that key is.
C3_Claim ==
  (/\ action.type = "START_TOUR"
   /\ action.stepId = "undefined"
   /\ prev.isAvailable
   /\ prev.isRegistered
   /\ Len(orderedStepIds) > 0)
    => /\ tour.currentStep # Null
       /\ tour.currentStep = registry[PropertyKey(orderedStepIds[1])]

\* C4: START_TOUR(stepId) on an available and registered tour sets currentStep
\* to the registered step with key stepId when stepId occurs in orderedStepIds,
\* and to the step at position 0 when it does not.
C4_Claim ==
  (/\ action.type = "START_TOUR"
   /\ action.stepId \in TourEnumType
   /\ prev.isAvailable
   /\ prev.isRegistered
   /\ Len(orderedStepIds) > 0)
    => /\ tour.currentStep # Null
       /\ tour.currentStep =
            IF indexOf(orderedStepIds, action.stepId) # -1
              THEN registry[PropertyKey(action.stepId)]
              ELSE registry[PropertyKey(orderedStepIds[1])]

\* C5: NEXT_STEP from the step at position i, when position i+1 exists and its
\* key is registered, sets currentStep to the registered step with key
\* orderedStepIds[i+1] and does not end the tour, for every key value.
C5_Claim ==
  (/\ action.type = "NEXT_STEP"
   /\ prev.currentStep # Null
   /\ indexOf(orderedStepIds, prev.currentStep.id) # -1
   /\ indexOf(orderedStepIds, prev.currentStep.id) + 1 < Len(orderedStepIds)
   /\ registry[PropertyKey(At(orderedStepIds,
         indexOf(orderedStepIds, prev.currentStep.id) + 1))] \notin {Null, Absent})
    => tour.currentStep =
         registry[PropertyKey(At(orderedStepIds,
           indexOf(orderedStepIds, prev.currentStep.id) + 1))]

\* C6: NEXT_STEP dispatched while currentStep is the last step of
\* orderedStepIds completes the tour: currentStep becomes null and isActive is
\* false.
C6_NextFromLastCompletes ==
  (/\ action.type = "NEXT_STEP"
   /\ prev.currentStep # Null
   /\ indexOf(orderedStepIds, prev.currentStep.id) = Len(orderedStepIds) - 1)
    => /\ tour.currentStep = Null
       /\ tour.isActive = FALSE
       /\ tour = completeTourState(prev)

\* NEXT_STEP was dispatched on the last step of a tour of at least two steps
C6_Witness ==
  /\ action.type = "NEXT_STEP"
  /\ Len(orderedStepIds) >= 2
  /\ prev.currentStep # Null
  /\ prev.currentStep.id = orderedStepIds[Len(orderedStepIds)]
  /\ tour.currentStep = Null

\* C7: NEXT_STEP and PREVIOUS_STEP dispatched while there is no current step
\* (never started, ended or completed) return the state unchanged.
C7_NavigateWithoutStepNoOp ==
  (action.type \in {"NEXT_STEP", "PREVIOUS_STEP"} /\ prev.currentStep = Null)
    => tour = prev

\* PREVIOUS_STEP was dispatched on a registered, available tour never started
C7_Witness ==
  /\ action.type = "PREVIOUS_STEP"
  /\ Len(orderedStepIds) > 0
  /\ prev.currentStep = Null
  /\ prev.currentStepIndex = <<>>
  /\ prev.isAvailable
  /\ prev.isRegistered
  /\ tour = prev

\* C8: PREVIOUS_STEP from the step at position i sets currentStep to the
\* registered step with key orderedStepIds[i-1] when i > 0 (and that key is
\* registered), for every key value, and leaves the state unchanged when i = 0.
C8_Claim ==
  (/\ action.type = "PREVIOUS_STEP"
   /\ prev.currentStep # Null
   /\ indexOf(orderedStepIds, prev.currentStep.id) # -1)
    => IF indexOf(orderedStepIds, prev.currentStep.id) > 0
         THEN registry[PropertyKey(At(orderedStepIds,
                indexOf(orderedStepIds, prev.currentStep.id) - 1))] \notin {Null, Absent}
              => tour.currentStep =
                   registry[PropertyKey(At(orderedStepIds,
                     indexOf(orderedStepIds, prev.currentStep.id) - 1))]
         ELSE tour = prev

\* C9: END_TOUR is accepted in every state and yields currentStep null and
\* isActive false.
C9_EndTourAlwaysCompletes ==
  action.type = "END_TOUR"
    => /\ tour.currentStep = Null
       /\ tour.isActive = FALSE
       /\ tour = completeTourState(prev)

\* END_TOUR was dispatched while an unavailable tour had a current step
C9_Witness ==
  /\ action.type = "END_TOUR"
  /\ ~prev.isAvailable
  /\ prev.currentStep # Null
  /\ tour.currentStep = Null

\* C10: SET_CURRENT_STEP(step) leaves the state unchanged when step's key does
\* not occur in orderedStepIds and sets currentStep to exactly the given step
\* when it does.
C10_SetCurrentStep ==
  action.type = "SET_CURRENT_STEP"
    => IF indexOf(orderedStepIds, action.step.id) = -1
         THEN tour = prev
         ELSE tour.currentStep = action.step

\* SET_CURRENT_STEP was given a step that differs from the registered one
C10_Witness ==
  /\ action.type = "SET_CURRENT_STEP"
  /\ indexOf(orderedStepIds, action.step.id) # -1
  /\ registry[PropertyKey(action.step.id)] \notin {Null, Absent}
  /\ registry[PropertyKey(action.step.id)] # action.step
  /\ tour.currentStep = action.step

\* C11: currentStep goes from null to present only by an action applied while
\* isAvailable and isRegistered both held; while isAvailable is false no action
\* makes currentStep present.
C11_Claim ==
  (prev.currentStep = Null /\ tour.currentStep # Null)
    => (prev.isAvailable /\ prev.isRegistered)

\* C12: in every reachable state isActive is true exactly when currentStep is
\* present.
C12_Claim == tour.isActive <=> (tour.currentStep # Null)

C16_Claim ==
  \A step \in TourStep :
    (useRegisterTourStep(tour, step) = "TourElement")
      <=> (/\ tour.isActive
           /\ tour.isAvailable
           /\ tour.isRegistered
           /\ tour.currentStep # Null
           /\ tour.currentStep.id = step.id)

\* C17: REGISTER_STEP for a step that the registry already holds, with the same
\* key and contents, leaves the registry and the tour state, isRegistered
\* included, unchanged.
C17_Claim ==
  (/\ action.type = "REGISTER_STEP"
   /\ registry[PropertyKey(action.step.id)] = action.step)
    => /\ tour = prev
       /\ nextRegistry[PropertyKey(action.step.id)] = action.step

\* C18: the next tour state is a function of the tour state and the action
\* alone: the same action applied to the same state gives the same next state
\* whichever registry snapshot the reducer closed over, that is, whether or not
\* a render has happened since the last dispatch.
C18_Claim ==
  \A a \in TourAction : reducer(tour, a, registry) = reducer(tour, a, nextRegistry)

\* C20: whenever START_TOUR, NEXT_STEP or PREVIOUS_STEP selects a target key of
\* orderedStepIds, the registry seen by the reducer holds a step for that key
\* and currentStep becomes that step, never null for want of a registry entry.
C20_Claim ==
  LET index == IF prev.currentStep = Null THEN -1
               ELSE indexOf(orderedStepIds, prev.currentStep.id)
      selects ==
        CASE action.type = "START_TOUR" -> prev.isAvailable /\ prev.isRegistered
          [] action.type = "NEXT_STEP" -> prev.currentStep # Null
          [] action.type = "PREVIOUS_STEP" -> prev.currentStep # Null
          [] OTHER -> FALSE
      target ==
        CASE action.type = "START_TOUR" ->
               IF Truthy(action.stepId) /\ indexOf(orderedStepIds, action.stepId) # -1
                 THEN action.stepId ELSE At(orderedStepIds, 0)
          [] action.type = "NEXT_STEP" -> At(orderedStepIds, index + 1)
          [] action.type = "PREVIOUS_STEP" -> At(orderedStepIds, index - 1)
          [] OTHER -> "undefined"
  IN  (selects /\ Truthy(target))
        => /\ registry[PropertyKey(target)] \notin {Null, Absent}
           /\ tour.currentStep = registry[PropertyKey(target)]

\* C19: every transition is total: each of the six action types applied to the
\* tour state yields a defined TourState, whichever registry the reducer closed
\* over, and an action of any other type returns the prior state unchanged.
C19_TransitionsTotal ==
  /\ \A a \in TourAction \cup {[type |-> "UNKNOWN"]} :
       /\ reducer(tour, a, registry) \in TourState
       /\ reducer(tour, a, nextRegistry) \in TourState
  /\ tour \in TourState
  /\ action.type \notin {"INIT", "REGISTER_STEP", "START_TOUR", "NEXT_STEP",
                         "PREVIOUS_STEP", "END_TOUR", "SET_CURRENT_STEP"}
       => tour = prev

\* an action of unknown type was dispatched while a step was current
C19_Witness ==
  /\ action.type = "UNKNOWN"
  /\ prev.currentStep # Null
  /\ prev.isRegistered
  /\ tour = prev

\* the concrete run of C14 on orderedStepIds [A, B, C], steps registered in
\* position order, then the tour started and navigated
Scenario ==
  LET reg(i) == [type |-> "REGISTER_STEP",
                 step |-> [id |-> orderedStepIds[i], title |-> "t1", description |-> "d"]]
  IN  << reg(1), reg(2), reg(3),
         [type |-> "START_TOUR", stepId |-> "undefined"],
         [type |-> "NEXT_STEP"], [type |-> "NEXT_STEP"], [type |-> "NEXT_STEP"],
         [type |-> "PREVIOUS_STEP"] >>

\* the key of the step being visited, "none" when currentStep is absent
VisitedKey(state) ==
  IF state.currentStep = Null THEN "none" ELSE state.currentStep.id

\* C14: with orderedStepIds [A, B, C] and isAvailable true, after
\* REGISTER_STEP(A), REGISTER_STEP(B), REGISTER_STEP(C) isRegistered is true;
\* START_TOUR() then gives currentStep key A; three NEXT_STEPs give B, then C,
\* then no currentStep; a following PREVIOUS_STEP leaves currentStep absent.
C14_Claim ==
  LET n == Len(run)
  IN  (/\ Len(orderedStepIds) = 3
       /\ tour.isAvailable
       /\ n \in 3..8
       /\ run = SubSeq(Scenario, 1, n))
        => CASE n = 3 -> tour.isRegistered
             [] n = 4 -> VisitedKey(tour) = orderedStepIds[1]
             [] n = 5 -> VisitedKey(tour) = orderedStepIds[2]
             [] n = 6 -> VisitedKey(tour) = orderedStepIds[3]
             [] OTHER -> VisitedKey(tour) = "none"

\* the orders in which the actions of seq can be dispatched
Orders(seq) ==
  LET n == Len(seq)
      bijections == {f \in [1..n -> 1..n] : \A i, j \in 1..n : f[i] = f[j] => i = j}
  IN  {[i \in 1..n |-> seq[f[i]]] : f \in bijections}

\* C15: when the run is REGISTER_STEPs covering all keys of orderedStepIds
\* followed by START_TOUR, NEXT_STEP and PREVIOUS_STEP actions, dispatching the
\* registrations in any other order and then the same actions visits the same
\* step keys in the same order.
C15_Claim ==
  LET regs == SelectSeq(run, LAMBDA a : a.type = "REGISTER_STEP")
      navs == SelectSeq(run, LAMBDA a : a.type # "REGISTER_STEP")
      init == initState(orderedStepIds, tour.isAvailable)
      reg0 == useTourRegistry(orderedStepIds)
      visited(rs, k) == VisitedKey(Replay(init, reg0, rs \o SubSeq(navs, 1, k)))
  IN  (/\ run = regs \o navs
       /\ {regs[i].step.id : i \in 1..Len(regs)}
            = {orderedStepIds[i] : i \in 1..Len(orderedStepIds)})
        => \A other \in Orders(regs) : \A k \in 1..Len(navs) :
             visited(other, k) = visited(regs, k)

\* C21: no action changes orderedStepIds: in every reachable state the tour
\* state's orderedStepIds equals the sequence given at tour initialization.
C21_OrderedStepIdsFixed ==
  /\ tour.orderedStepIds = orderedStepIds
  /\ prev.orderedStepIds = orderedStepIds

\* a run was ended from a current step, through completeTourState
C21_Witness ==
  /\ action.type = "END_TOUR"
  /\ prev.currentStep # Null
  /\ Len(orderedStepIds) = 3
  /\ tour.orderedStepIds = orderedStepIds

\* C22: the registry only grows: a key that has a registered step has one in
\* every later state, whatever action is dispatched; no action resets an entry.
C22_RegistryOnlyGrows ==
  [][\A p \in PropertyNames :
       /\ registry[p] \notin {Null, Absent} => registry'[p] \notin {Null, Absent}
       /\ nextRegistry[p] \notin {Null, Absent} => nextRegistry'[p] \notin {Null, Absent}
       /\ registry[p] \notin {Null, Absent} => nextRegistry[p] \notin {Null, Absent}]_vars

\* the tour was ended with two steps registered and both are still registered
C22_Witness ==
  /\ action.type = "END_TOUR"
  /\ prev.currentStep # Null
  /\ Cardinality({p \in PropertyNames : registry[p] \notin {Null, Absent}}) >= 2

\* C23: in the linked-step revision, PREVIOUS_STEP dispatched while the current
\* step is the first step (its previousStep is null) leaves currentStep unchanged.
C23_Claim ==
  (/\ action.type = "PREVIOUS_STEP"
   /\ prev.currentStep # Null
   /\ previousStep(orderedStepIds, prev.currentStep) = Null)
    => tour.currentStep = prev.currentStep

\* C24: in the linked-step revision the tour is marked complete on both ways of
\* leaving the active state: after NEXT_STEP from the final step (nextStep null)
\* and after END_TOUR, currentStep is absent and isComplete is true.
C24_Claim ==
  (/\ prev.currentStep # Null
   /\ \/ action.type = "END_TOUR"
      \/ /\ action.type = "NEXT_STEP"
         /\ nextStep(orderedStepIds, prev.currentStep) = Null)
    => /\ tour.currentStep = Null
       /\ tour.isComplete

\* C25: in every reachable state where TourBlurContainer shows the blur overlay
\* (currentStep is present), the mounted component registered for currentStep's
\* key renders the tour chrome, so a control dispatching END_TOUR is available.
C25_Claim ==
  TourBlurContainer(tour)
    => \E step \in mountedSteps :
         /\ step.id = tour.currentStep.id
         /\ useRegisterTourStep(tour, step) = "TourElement"
         /\ \E control \in TourElement(tour) : control.type = "END_TOUR"

\* C26: the navigation controls rendered by TourElement agree with the reducer:
\* Previous is shown exactly when PREVIOUS_STEP would move to a different step,
\* Next exactly when NEXT_STEP would move to another step rather than complete
\* the tour, and where Next is not shown a Finish control dispatching END_TOUR is.
C26_Claim ==
  LET controls == TourElement(tour)
      shown(label) == \E control \in controls : control.label = label
      moves(a) ==
        LET after == reducer(tour, a, nextRegistry)
        IN  /\ after.currentStep # Null
            /\ after.currentStep.id # tour.currentStep.id
  IN  useRegisterTourStep(tour, tour.currentStep) = "TourElement"
        => /\ shown("Previous") <=> moves([type |-> "PREVIOUS_STEP"])
           /\ shown("Next") <=> moves([type |-> "NEXT_STEP"])
           /\ shown("Finish tour") <=> ~shown("Next")
           /\ \A control \in controls :
                control.label = "Finish tour" => control.type = "END_TOUR"

C28_Claim ==
  LET i == indexOf(orderedStepIds, tour.currentStep.id)
      next == [type |-> "NEXT_STEP"]
      previous == [type |-> "PREVIOUS_STEP"]
      sameKey(state) ==
        /\ state.currentStep # Null
        /\ state.currentStep.id = tour.currentStep.id
  IN  (/\ tour.currentStep # Null
       /\ \A k \in 1..Len(orderedStepIds) :
            nextRegistry[PropertyKey(orderedStepIds[k])] \notin {Null, Absent})
        => /\ i + 1 < Len(orderedStepIds)
                => sameKey(Replay(tour, nextRegistry, <<next, previous>>))
           /\ i > 0
                => sameKey(Replay(tour, nextRegistry, <<previous, next>>))

\* C29: ending a run (END_TOUR, or NEXT_STEP past the last step) leaves
\* isAvailable, isRegistered, orderedStepIds and the registry unchanged, so a
\* START_TOUR dispatched after the completion of a run of an available,
\* registered tour starts a new run at the first step.
C29_Claim ==
  LET ends ==
        /\ prev.currentStep # Null
        /\ \/ action.type = "END_TOUR"
           \/ /\ action.type = "NEXT_STEP"
              /\ indexOf(orderedStepIds, prev.currentStep.id) = Len(orderedStepIds) - 1
      restarted == reducer(tour, [type |-> "START_TOUR", stepId |-> "undefined"], nextRegistry)
  IN  ends
        => /\ tour.currentStep = Null
           /\ tour.isAvailable = prev.isAvailable
           /\ tour.isRegistered = prev.isRegistered
           /\ tour.orderedStepIds = prev.orderedStepIds
           /\ setRegistry(registry, action) = registry
           /\ setRegistry(nextRegistry, action) = nextRegistry
           /\ (prev.isAvailable /\ prev.isRegistered)
                => /\ restarted.currentStep # Null
                   /\ restarted.currentStep.id = orderedStepIds[1]

\* C30: calling the onRetry function returned by useReplayData invalidates the
\* replay record query, the recording-segments query and the replays-events-meta
\* query, so that each of them is fetched again.
C30_Claim ==
  action.type = "onRetry"
    => \A k \in ReplayQueryKeys :
         prev.queries[k].status \in {"success", "error"}
           => \/ replay.queries[k].isInvalidated
              \/ replay.queries[k].status = "fetching"

====
